---------------------------- MODULE Spec2Model ----------------------------
(***************************************************************************)
(* Model of the document compliance engine of monitoring-ms:               *)
(*   - MoySkladClient (src/moysklad_client.py): the rate-governed gateway  *)
(*     (_make_request, _apply_request_delay, _calculate_retry_delay, the   *)
(*     error window) and the get_*_for_period list fetches;                *)
(*   - MonitoringServiceV2 (src/monitoring_service_v2.py): the period      *)
(*     checks, the per-document evaluators and the payment-deadline check. *)
(* The clock is in whole seconds, money is in integer kopecks.             *)
(***************************************************************************)
EXTENDS Integers, Sequences, FiniteSets, TLC

Max(a, b) == IF a >= b THEN a ELSE b
Min(a, b) == IF a <= b THEN a ELSE b

(***************************************************************************)
(* Bounds of the model                                                     *)
(***************************************************************************)
MaxCalls == 2            \* gateway calls made by one client instance
Epoch == 100             \* value of time.time() when the client is constructed
MaxDocs == 2             \* documents returned by one list fetch
MaxPositions == 2        \* flagged line items of one document
MaxDays == 63            \* days elapsed since the document date
MaxPasses == 2           \* evaluator passes over one document
MaxTail == 10            \* digits of a phone after its leading digits
MaxDigits == 13          \* digits of a tax ID
MaxRemote == 5           \* documents of the remote collection that match the filter
MaxPage == 3             \* rows the remote service puts in one response
RecordCap == 4           \* the cap on the records of one period fetch (1000, scaled)
MaxResolutions == 3      \* documents whose owner one service instance resolves

(***************************************************************************)
(* Program constants                                                       *)
(***************************************************************************)
max_retry_429 == 5
error_window_seconds == 60
MaxBackoff == 30
RetryAfterFloor == 1

(***************************************************************************)
(* State                                                                   *)
(***************************************************************************)
VARIABLES
    \* ---- MoySkladClient ----
    now,                \* time.time()
    min_delay,          \* self.min_delay (Config.MOYSKLAD_MIN_DELAY)
    last_request_time,  \* self.last_request_time
    error_events,       \* self.error_events: <<timestamp, status_code, endpoint>>
    attempt,            \* local of _make_request
    gw_pc,              \* "idle" | "loop": position of _make_request
    endpoint,           \* argument of the running / last call
    gw_outcome,         \* how the last call ended
    callCount,          \* calls started so far
    calllog,            \* history of the running call: requests, 429 answers, backoff sleeps
    backoff,            \* the last backoff sleep: header, attempt, wait_time
    issue,              \* history of request issue times of the instance
    provider            \* the remote API as this instance sees it: latency, Retry-After policy

gwVars == <<now, min_delay, last_request_time, error_events, attempt, gw_pc,
            endpoint, gw_outcome, callCount, calllog, backoff, issue, provider>>

VARIABLES
    \* ---- MonitoringServiceV2: one check_*_period call ----
    region,             \* self.region
    docType,            \* which check_*_period runs
    ck_pc,              \* "fetch" | "loop" | "fold" | "done" | "escaped"
    fetched,            \* how the list fetch of the period ended inside the gateway
    documents,          \* len() of the list returned by get_*_for_period
    idx,                \* documents taken by the for loop so far
    valid_count,        \* valid_count
    errors,             \* errors: one entry per document with issues (the document's index)
    cur,                \* the document in the loop body: predicates run, their results, its issues
    skipped,            \* shipments dropped by the Kaspi filter so far
    report              \* the returned dictionary

ckVars == <<region, docType, ck_pc, fetched, documents, idx, valid_count, errors, cur,
           skipped, report>>

\* _validate_shipment_payment on one document over the days
VARIABLES
    pay_pc,             \* "idle" | "run"
    today,              \* date.today(), in days
    shipment,           \* the document: moment (day), sum and payedSum in kopecks, contract
    contract_data,      \* what the gateway serves for the contract link
    payment_error       \* result of the last call: "" for no issue; "unchecked" before it

payVars == <<pay_pc, today, shipment, contract_data, payment_error>>

\* MonitoringServiceV2.run_monitoring
VARIABLES
    run_pc,             \* "idle" | "checks" | "done"
    reports,            \* the reports of the checks run so far, in order
    total_issues,       \* total_issues
    sent,               \* Bitrix24Client methods that were called and ran, in order
    run_result          \* "none" | "True" | "False" | "AttributeError" (raised to the caller)

runVars == <<run_pc, reports, total_issues, sent, run_result>>

\* the resolver (_resolve_owner, _get_counterparty_type) and the predicates that use it
VARIABLES
    res_pc,             \* "idle" | "run"
    owner_cache,        \* self._owner_cache: identifier -> name (<< >> when absent)
    document,           \* the document handed to the evaluator, memo key included
    directory,          \* what the gateway serves: employees by identifier, the counterparty
    fetches,            \* gateway requests made so far: for owners (by identifier), for the
                        \* agent, for the contract
    passes              \* results of the evaluator passes over the document, in order

resVars == <<res_pc, owner_cache, document, directory, fetches, passes>>

\* the field predicates applied to one document
VARIABLES
    fld_pc,             \* "idle" | "input" | "done"
    subject,            \* the document (or counterparty) handed to the predicate
    verdict             \* what the predicate returned

fldVars == <<fld_pc, subject, verdict>>

\* one period fetch against a remote collection served in pages
VARIABLES
    pg_pc,              \* "idle" | "start" | "answered" | "returned"
    collection,         \* the document type fetched
    remote,             \* documents of the remote collection that match the date filter
    page_size,          \* rows the remote service returns in one response
    offsets,            \* the offset of every list request made, in order
    rows                \* the rows handed back to the caller

pgVars == <<pg_pc, collection, remote, page_size, offsets, rows>>

vars == <<gwVars, ckVars, payVars, runVars, resVars, fldVars, pgVars>>
\* what the actions of one part leave alone
notGw == <<ckVars, payVars, runVars, resVars, fldVars, pgVars>>
notCk == <<gwVars, payVars, runVars, resVars, fldVars, pgVars>>
notPay == <<gwVars, ckVars, runVars, resVars, fldVars, pgVars>>
notRun == <<gwVars, ckVars, payVars, resVars, fldVars, pgVars>>
notRes == <<gwVars, ckVars, payVars, runVars, fldVars, pgVars>>
notFld == <<gwVars, ckVars, payVars, runVars, resVars, pgVars>>
notPg == <<gwVars, ckVars, payVars, runVars, resVars, fldVars>>

(***************************************************************************)
(* Inputs of the gateway                                                   *)
(***************************************************************************)
MinDelays == {0, 2}
Endpoints == {"/entity/counterparty"}
Durations == {0, 1}                 \* seconds between sending a request and its answer or failure
IdleGaps == {0, 61}                 \* seconds between two calls
RetryAfterSeconds == {0, 45}
NoHeader == [present |-> FALSE, parses |-> FALSE, seconds |-> 0]
BadHeader == [present |-> TRUE, parses |-> FALSE, seconds |-> 0]
RetryAfterHeaders ==
    {NoHeader, BadHeader} \cup
    {[present |-> TRUE, parses |-> TRUE, seconds |-> s] : s \in RetryAfterSeconds}
OtherSuccessStatuses == {204}       \* answered without error, not 200
ErrorStatuses == {500}              \* >= 400, not 429

(***************************************************************************)
(* MoySkladClient helpers                                                  *)
(***************************************************************************)
\* _apply_request_delay: the sleep before a request
ApplyRequestDelay(t, last, delay) ==
    IF delay <= 0 THEN 0
    ELSE IF last > 0 /\ t - last < delay THEN delay - (t - last)
    ELSE 0

CalculateRetryDelay_M(header, att) ==
    IF header.present /\ header.parses
    THEN Max(header.seconds, RetryAfterFloor)
    ELSE Min(MaxBackoff, 2 ^ (att - 1))

\* _calculate_retry_delay(response, attempt)
CalculateRetryDelay(header, att) ==
    IF header.present /\ header.parses
    THEN Max(header.seconds, RetryAfterFloor)
    ELSE Min(MaxBackoff, 2 ^ att)

RECURSIVE PruneErrorEvents(_, _)
\* _prune_error_events: pops from the left while the head is older than the window
PruneErrorEvents(events, t) ==
    IF events # << >> /\ t - events[1][1] > error_window_seconds
    THEN PruneErrorEvents(Tail(events), t)
    ELSE events

\* _register_error: append, then prune (the warnings only log)
RegisterError(events, t, status, ep) ==
    PruneErrorEvents(Append(events, <<t, status, ep>>), t)

RetryCeilingExceeded_M(att) == att > max_retry_429 + 1

\* does the 429 branch give up? (attempt already incremented)
RetryCeilingExceeded(att) == att > max_retry_429

(***************************************************************************)
(* MoySkladClient._make_request, one loop iteration per action             *)
(***************************************************************************)
NoBackoff == [header |-> NoHeader, attempt |-> 0, wait_time |-> 0]
NoIssue == [count |-> 0, last |-> 0, prev |-> 0, slept |-> 0, failed |-> FALSE]
NewCallLog == [requests |-> 0, answers429 |-> 0, sleeps |-> 0, other |-> 0]

GwInit ==
    /\ now = Epoch
    /\ min_delay \in MinDelays
    /\ last_request_time = 0
    /\ error_events = << >>
    /\ attempt = 0
    /\ gw_pc = "idle"
    /\ endpoint = "/entity/counterparty"
    /\ gw_outcome = "none"
    /\ callCount = 0
    /\ calllog = NewCallLog
    /\ backoff = NoBackoff
    /\ issue = NoIssue
    /\ provider \in [latency : Durations, retry_after : RetryAfterHeaders]

\* the client as constructed, never called
GwIdle ==
    /\ GwInit
    /\ min_delay = 0
    /\ provider = [latency |-> 0, retry_after |-> NoHeader]

\* a caller enters _make_request(endpoint) some time after the previous call
StartCall ==
    /\ gw_pc = "idle"
    /\ callCount < MaxCalls
    /\ \E ep \in Endpoints, gap \in IdleGaps :
         /\ endpoint' = ep
         /\ now' = now + gap
    /\ gw_pc' = "loop"
    /\ attempt' = 0
    /\ gw_outcome' = "none"
    /\ callCount' = callCount + 1
    /\ calllog' = NewCallLog
    /\ backoff' = NoBackoff
    /\ UNCHANGED <<min_delay, last_request_time, error_events, issue, provider>>
    /\ UNCHANGED notGw

\* time at which the request of this iteration is sent
IssueAt == now + ApplyRequestDelay(now, last_request_time, min_delay)

Issued(failed) ==
    [count |-> issue.count + 1, last |-> IssueAt, prev |-> issue.last,
     slept |-> IssueAt - now, failed |-> failed]

\* requests.get answered 200: prune, return response.json()
Request200 ==
    /\ gw_pc = "loop"
    /\ LET d == provider.latency IN
         /\ now' = IssueAt + d
         /\ last_request_time' = IssueAt + d
         /\ error_events' = PruneErrorEvents(error_events, IssueAt + d)
    /\ issue' = Issued(FALSE)
    /\ calllog' = [calllog EXCEPT !.requests = @ + 1, !.other = @ + 1]
    /\ gw_pc' = "idle"
    /\ gw_outcome' = "returned"
    /\ UNCHANGED <<min_delay, attempt, endpoint, callCount, backoff, provider>>
    /\ UNCHANGED notGw

\* answered with a status below 400 other than 200: raise_for_status passes, return
RequestOtherSuccess ==
    /\ gw_pc = "loop"
    /\ \E s \in OtherSuccessStatuses :
         LET d == provider.latency IN
         /\ now' = IssueAt + d
         /\ last_request_time' = IssueAt + d
    /\ issue' = Issued(FALSE)
    /\ calllog' = [calllog EXCEPT !.requests = @ + 1, !.other = @ + 1]
    /\ gw_pc' = "idle"
    /\ gw_outcome' = "returned"
    /\ UNCHANGED <<min_delay, error_events, attempt, endpoint, callCount, backoff, provider>>
    /\ UNCHANGED notGw

\* answered 429 below the ceiling: register, sleep wait_time, continue
Request429Retry ==
    /\ gw_pc = "loop"
    /\ ~RetryCeilingExceeded(attempt + 1)
    /\ LET d == provider.latency
           h == provider.retry_after
           wait_time == CalculateRetryDelay(h, attempt + 1) IN
         /\ now' = IssueAt + d + wait_time
         /\ last_request_time' = IssueAt + d
         /\ error_events' = RegisterError(error_events, IssueAt + d, 429, endpoint)
         /\ backoff' = [header |-> h, attempt |-> attempt + 1, wait_time |-> wait_time]
    /\ attempt' = attempt + 1
    /\ issue' = Issued(FALSE)
    /\ calllog' = [calllog EXCEPT !.requests = @ + 1, !.answers429 = @ + 1,
                                  !.sleeps = @ + 1]
    /\ UNCHANGED <<min_delay, gw_pc, endpoint, gw_outcome, callCount, provider>>
    /\ UNCHANGED notGw

\* answered 429 past the ceiling: register, raise_for_status raises HTTPError
Request429Exhausted ==
    /\ gw_pc = "loop"
    /\ RetryCeilingExceeded(attempt + 1)
    /\ LET d == provider.latency IN
         /\ now' = IssueAt + d
         /\ last_request_time' = IssueAt + d
         /\ error_events' = RegisterError(error_events, IssueAt + d, 429, endpoint)
    /\ attempt' = attempt + 1
    /\ issue' = Issued(FALSE)
    /\ calllog' = [calllog EXCEPT !.requests = @ + 1, !.answers429 = @ + 1]
    /\ gw_pc' = "idle"
    /\ gw_outcome' = "HTTPError429"
    /\ UNCHANGED <<min_delay, endpoint, callCount, backoff, provider>>
    /\ UNCHANGED notGw

\* answered with another status >= 400: register, raise_for_status raises HTTPError
RequestHttpError ==
    /\ gw_pc = "loop"
    /\ \E s \in ErrorStatuses :
         LET d == provider.latency IN
         /\ now' = IssueAt + d
         /\ last_request_time' = IssueAt + d
         /\ error_events' = RegisterError(error_events, IssueAt + d, s, endpoint)
    /\ issue' = Issued(FALSE)
    /\ calllog' = [calllog EXCEPT !.requests = @ + 1, !.other = @ + 1]
    /\ gw_pc' = "idle"
    /\ gw_outcome' = "HTTPError"
    /\ UNCHANGED <<min_delay, attempt, endpoint, callCount, backoff, provider>>
    /\ UNCHANGED notGw

\* requests.get raised (connection failure, timeout): logged and re-raised;
\* last_request_time and the error window are not touched
RequestNetworkError ==
    /\ gw_pc = "loop"
    /\ now' = IssueAt + provider.latency
    /\ issue' = Issued(TRUE)
    /\ calllog' = [calllog EXCEPT !.requests = @ + 1, !.other = @ + 1]
    /\ gw_pc' = "idle"
    /\ gw_outcome' = "RequestException"
    /\ UNCHANGED <<min_delay, last_request_time, error_events, attempt, endpoint,
                   callCount, backoff, provider>>
    /\ UNCHANGED notGw

GwStep ==
    \/ Request200
    \/ RequestOtherSuccess
    \/ Request429Retry
    \/ Request429Exhausted
    \/ RequestHttpError
    \/ RequestNetworkError

GwNext ==
    \/ StartCall
    \/ Request200
    \/ RequestOtherSuccess
    \/ Request429Retry
    \/ Request429Exhausted
    \/ RequestHttpError
    \/ RequestNetworkError

(***************************************************************************)
(* MoySkladClient.get_*_for_period                                         *)
(***************************************************************************)
Regions == {"RB", "RF", "KZ"}
DocTypes == {"contractors", "shipments", "commission", "sales",
             "sales_returns", "retail_returns", "commission_returns"}

\* outcomes of _make_request for the list request (gw_outcome), and whether str(e)
\* of the exception contains "limit" / the Cyrillic word for it
FetchOutcomes == {"returned", "HTTPError429", "HTTPError", "RequestException"}
Fetches ==
    {f \in [outcome : FetchOutcomes, limit_text : BOOLEAN] :
        f.outcome \in {"returned", "HTTPError429"} => ~f.limit_text}

DailyLimitText == "daily API limit reached (1000 requests), try later"
ErrorText(f) ==
    IF f.outcome = "HTTPError429" THEN "429 Client Error"
    ELSE IF f.outcome = "HTTPError"
         THEN (IF f.limit_text THEN "HTTP error, limit" ELSE "HTTP error")
    ELSE (IF f.limit_text THEN "request failed, limit" ELSE "request failed")

Rows == [kind |-> "rows", exc |-> "none", text |-> ""]
EmptyList == [kind |-> "empty", exc |-> "none", text |-> ""]
Raise(e, t) == [kind |-> "raise", exc |-> e, text |-> t]

\* get_contractors_for_period / get_shipments_for_period: the except clauses
GetWithLimitHandling(f) ==
    IF f.outcome = "returned" THEN Rows
    ELSE IF f.outcome \in {"HTTPError429", "HTTPError"}
         THEN (IF f.outcome = "HTTPError429" \/ f.limit_text
               THEN Raise("RuntimeError", DailyLimitText)
               ELSE Raise("HTTPError", ErrorText(f)))
    ELSE (IF f.limit_text
          THEN Raise("RuntimeError", DailyLimitText)
          ELSE EmptyList)

\* get_commission_reports_for_period, get_sales_for_period and the three
\* get_*_returns_for_period: except Exception -> return []
GetSwallowing(f) ==
    IF f.outcome = "returned" THEN Rows ELSE EmptyList

GetForPeriod(dt, f) ==
    IF dt \in {"contractors", "shipments"} THEN GetWithLimitHandling(f)
    ELSE GetSwallowing(f)

(***************************************************************************)
(* MonitoringServiceV2: the evaluators                                     *)
(***************************************************************************)
CompanyTypes == {"legal", "entrepreneur", "individual", ""}

\* the predicates each evaluator calls in its loop body
Pipeline(dt) ==
    CASE dt = "contractors" ->
           {"phone", "pd_agreement", "pd_date", "unp", "type_name_mismatch",
            "actual_address", "groups", "contract_type", "client_type", "region"}
      [] dt = "shipments" ->
           {"owner", "source", "contract", "contract_fields", "contract_type_shipment",
            "channel", "project", "payment_method", "payment", "price"}
      [] dt \in {"commission", "sales"} ->
           {"price", "channel", "project", "contract", "contract_fields", "source",
            "payment_method", "payment"}
      [] OTHER -> {"channel", "project", "price"}

\* the order in which each evaluator appends the non-empty results to issues
IssueOrder(dt) ==
    CASE dt = "contractors" ->
           <<"phone", "pd_agreement", "pd_date", "unp", "actual_address", "groups",
             "type_name_mismatch", "contract_type", "client_type", "region">>
      [] dt = "shipments" ->
           <<"owner", "source", "channel", "project", "price", "contract",
             "contract_fields", "contract_type_shipment", "payment_method", "payment">>
      [] dt \in {"commission", "sales"} ->
           <<"price", "channel", "project", "contract", "contract_fields", "source",
             "payment_method", "payment">>
      [] OTHER -> <<"channel", "project", "price">>

Range(sq) == {sq[i] : i \in DOMAIN sq}

\* predicates that begin by returning "" outside their regions or company types, or
\* that never report (_validate_shipment_owner returns "" on both branches)
CanReport(p, dt, rg, ct) ==
    CASE p = "owner" -> FALSE
      [] p = "unp" -> ct \in {"legal", "entrepreneur"}
      [] p \in {"actual_address", "groups"} -> ct = "legal"
      [] p = "type_name_mismatch" -> ct \in {"legal", "individual"}
      [] p = "contract_type_shipment" -> rg = "RF"
      [] p = "payment_method" -> rg = "RB"
      [] p = "payment" -> rg \in {"RB", "RF"}
      [] p \in {"pd_agreement", "pd_date", "region"} -> rg = "RB"
      [] p \in {"contract_type", "client_type"} -> rg \in {"RB", "RF"}
      [] OTHER -> TRUE

\* the conditions on region and company type under which an evaluator calls p
Gate(p, dt, rg, ct) ==
    CASE dt = "contractors" /\ p \in {"pd_agreement", "pd_date"} ->
           rg = "RB" /\ ct = "individual"
      [] dt = "contractors" /\ p \in {"contract_type", "client_type", "region"} ->
           ct \in {"legal", "entrepreneur"}
      [] OTHER -> TRUE

ShortCircuited_M(p, dt, found) ==
    \/ dt \in {"commission", "sales"} /\ p = "contract_fields" /\ found["contract"] > 0
    \/ dt # "contractors" /\ p = "project" /\ found["channel"] > 0

\* "... if not contract_error else ''": found holds the results of the predicates
\* called before p
ShortCircuited(p, dt, found) ==
    dt \in {"commission", "sales"} /\ p = "contract_fields" /\ found["contract"] > 0

\* is predicate p called for this document?
IsCalled(p, dt, rg, ct, found) == Gate(p, dt, rg, ct) /\ ~ShortCircuited(p, dt, found)

\* results of the pipeline on a document; doc[p] is what predicate p finds in the
\* document when it is called: 0 for "", the number of flagged entries otherwise
Results(dt, rg, ct, doc) ==
    [p \in Pipeline(dt) |->
        IF IsCalled(p, dt, rg, ct, doc) /\ CanReport(p, dt, rg, ct) THEN doc[p] ELSE 0]

Ran(dt, rg, ct, doc) ==
    {p \in Pipeline(dt) : IsCalled(p, dt, rg, ct, doc)}

RECURSIVE Repeat(_, _)
Repeat(x, n) == IF n = 0 THEN << >> ELSE <<x>> \o Repeat(x, n - 1)

RECURSIVE BuildIssues_M(_, _)
BuildIssues_M(order, res) ==
    IF order = << >> THEN << >>
    ELSE Repeat(Head(order), Min(res[Head(order)], 1)) \o BuildIssues_M(Tail(order), res)

RECURSIVE BuildIssues(_, _)
\* if x_error: issues.append(...) for each predicate in turn; one append per price entry
BuildIssues(order, res) ==
    IF order = << >> THEN << >>
    ELSE Repeat(Head(order), res[Head(order)]) \o BuildIssues(Tail(order), res)

\* the Kaspi filter at the top of the shipments loop
SkipsDocument(dt, rg, kaspi) == dt = "shipments" /\ rg = "KZ" /\ kaspi

\* what the documents of the model contain, as far as the predicates are concerned:
\* the predicates that find something, and the number of flagged price entries
DocContents(dt, rg, ct) ==
    {[p \in Pipeline(dt) |-> IF p = "price" THEN n ELSE IF p \in flagged THEN 1 ELSE 0] :
        flagged \in SUBSET {p \in Pipeline(dt) \ {"price"} : CanReport(p, dt, rg, ct)},
        n \in IF "price" \in Pipeline(dt) THEN 0..MaxPositions ELSE {0}}

(***************************************************************************)
(* MonitoringServiceV2.check_*_period                                      *)
(***************************************************************************)
NoDoc == [id |-> 0, skipped |-> FALSE, ran |-> {}, company_type |-> "",
          results |-> << >>, issues |-> << >>]
NoReport == [status |-> "none", total |-> 0, valid |-> 0, errors |-> << >>,
             error |-> "", error_message |-> ""]
SuccessReport(total, valid, errs) ==
    [status |-> "success", total |-> total, valid |-> valid, errors |-> errs,
     error |-> "", error_message |-> ""]
\* the early return of the inner "except RuntimeError" (key "error")
LimitReport(text) ==
    [status |-> "error", total |-> 0, valid |-> 0, errors |-> << >>,
     error |-> text, error_message |-> ""]
\* the return of the outer "except Exception" (key "error_message")
ErrorReport(text) ==
    [status |-> "error", total |-> 0, valid |-> 0, errors |-> << >>,
     error |-> "", error_message |-> text]

\* the keys of error_info other than the per-predicate keys
ErrorInfoFields(dt) ==
    CASE dt = "contractors" ->
           {"id", "name", "owner", "owner_id", "company_type", "phone", "issues", "link"}
      [] dt = "shipments" ->
           {"id", "name", "display_name", "counterparty", "owner", "owner_id", "moment",
            "main_issues", "contract_issues", "issues", "link"}
      [] dt \in {"commission", "sales"} ->
           {"id", "name", "owner", "owner_id", "moment", "issues", "link"}
      [] OTHER ->
           {"id", "name", "display_name", "counterparty", "owner", "owner_id", "moment",
            "issues", "link"}

\* the predicates whose result error_info carries under its own key
\* (<predicate>_error, price_errors)
ErrorInfoPredicates(dt) ==
    CASE dt = "contractors" ->
           {"phone", "pd_agreement", "pd_date", "unp", "actual_address", "groups",
            "type_name_mismatch"}
      [] dt = "shipments" ->
           {"owner", "source", "channel", "project", "contract", "contract_fields",
            "contract_type_shipment", "payment_method", "price", "payment"}
      [] dt \in {"commission", "sales"} ->
           {"price", "channel", "project", "contract", "contract_fields", "source",
            "payment_method", "payment"}
      [] OTHER -> {"channel", "project", "price"}

\* if issues: errors.append(error_info)
FoldErrors(errs, d) == IF d.issues # << >> THEN Append(errs, d.id) ELSE errs
\* else: valid_count += 1
FoldValid(valid, d) == IF d.issues # << >> THEN valid ELSE valid + 1

OuterCatches_M(exc) == exc \in {"RuntimeError", "HTTPError", "RequestException"}

\* exception classes the outer "except Exception" of a check catches
OuterCatches(exc) == exc \in {"RuntimeError", "HTTPError", "RequestException", "DataError"}

\* the inner try of check_contractors_period / check_shipments_period
InnerCatches(dt, exc, text) ==
    dt \in {"contractors", "shipments"} /\ exc = "RuntimeError" /\ text = DailyLimitText

CkIdle ==
    /\ region = "RB"
    /\ docType = "contractors"
    /\ ck_pc = "idle"
    /\ fetched = [outcome |-> "returned", limit_text |-> FALSE]
    /\ documents = 0
    /\ idx = 0
    /\ valid_count = 0
    /\ errors = << >>
    /\ cur = NoDoc
    /\ skipped = 0
    /\ report = NoReport

\* no period check in progress, a service of any region
CkRegion ==
    /\ region \in Regions
    /\ docType = "shipments"
    /\ ck_pc = "idle"
    /\ fetched = [outcome |-> "returned", limit_text |-> FALSE]
    /\ documents = 0
    /\ idx = 0
    /\ valid_count = 0
    /\ errors = << >>
    /\ cur = NoDoc
    /\ skipped = 0
    /\ report = NoReport

CkInit ==
    /\ region \in Regions
    /\ docType \in DocTypes
    /\ ck_pc = "fetch"
    /\ fetched = [outcome |-> "returned", limit_text |-> FALSE]
    /\ documents = 0
    /\ idx = 0
    /\ valid_count = 0
    /\ errors = << >>
    /\ cur = NoDoc
    /\ skipped = 0
    /\ report = NoReport

\* an exception leaves the try body of the check
Thrown(exc, text) ==
    IF OuterCatches(exc)
    THEN /\ ck_pc' = "done"
         /\ report' = ErrorReport(text)
    ELSE /\ ck_pc' = "escaped"
         /\ report' = report

\* the list fetch returns documents: enter the loop
FetchReturnsDocuments ==
    /\ ck_pc = "fetch"
    /\ \E n \in 1..MaxDocs :
         /\ fetched' = [outcome |-> "returned", limit_text |-> FALSE]
         /\ GetForPeriod(docType, fetched').kind = "rows"
         /\ documents' = n
    /\ ck_pc' = "loop"
    /\ UNCHANGED <<region, docType, idx, valid_count, errors, cur, skipped, report>>
    /\ UNCHANGED notCk

\* the list fetch returns nothing (no rows, or a swallowed failure): "if not documents"
FetchReturnsNothing ==
    /\ ck_pc = "fetch"
    /\ \E f \in Fetches :
         /\ fetched' = f
         /\ GetForPeriod(docType, f).kind \in {"rows", "empty"}
    /\ documents' = 0
    /\ ck_pc' = "done"
    /\ report' = SuccessReport(0, 0, << >>)
    /\ UNCHANGED <<region, docType, idx, valid_count, errors, cur, skipped>>
    /\ UNCHANGED notCk

\* the list fetch raises into the check
FetchRaises ==
    /\ ck_pc = "fetch"
    /\ \E f \in Fetches :
         LET got == GetForPeriod(docType, f) IN
         /\ fetched' = f
         /\ got.kind = "raise"
         /\ IF InnerCatches(docType, got.exc, got.text)
            THEN /\ ck_pc' = "done"
                 /\ report' = LimitReport(got.text)
            ELSE Thrown(got.exc, got.text)
    /\ UNCHANGED <<region, docType, documents, idx, valid_count, errors, cur, skipped>>
    /\ UNCHANGED notCk

\* the loop body on the next document: every predicate call and the issues list
EvaluateDocument ==
    /\ ck_pc = "loop"
    /\ idx < documents
    /\ \E ct \in IF docType = "contractors" THEN CompanyTypes ELSE {""} :
       \E doc \in DocContents(docType, region, ct) :
         LET res == Results(docType, region, ct, doc) IN
         cur' = [id |-> idx + 1, skipped |-> FALSE,
                 ran |-> Ran(docType, region, ct, doc),
                 company_type |-> ct,
                 results |-> res,
                 issues |-> BuildIssues(IssueOrder(docType), res)]
    /\ ck_pc' = "fold"
    /\ UNCHANGED <<region, docType, fetched, documents, idx, valid_count, errors, skipped,
                   report>>
    /\ UNCHANGED notCk

\* the end of the loop body: errors.append(error_info) or valid_count += 1
FoldDocument ==
    /\ ck_pc = "fold"
    /\ ~cur.skipped
    /\ errors' = FoldErrors(errors, cur)
    /\ valid_count' = FoldValid(valid_count, cur)
    /\ idx' = idx + 1
    /\ cur' = NoDoc
    /\ ck_pc' = "loop"
    /\ UNCHANGED <<region, docType, fetched, documents, skipped, report>>
    /\ UNCHANGED notCk

\* the Kaspi filter drops the next shipment
SkipDocument ==
    /\ ck_pc = "loop"
    /\ idx < documents
    /\ SkipsDocument(docType, region, TRUE)
    /\ cur' = [NoDoc EXCEPT !.id = idx + 1, !.skipped = TRUE]
    /\ ck_pc' = "fold"
    /\ UNCHANGED <<region, docType, fetched, documents, idx, valid_count, errors, skipped,
                   report>>
    /\ UNCHANGED notCk

\* "continue": the dropped shipment is neither valid nor an error
ContinueLoop ==
    /\ ck_pc = "fold"
    /\ cur.skipped
    /\ idx' = idx + 1
    /\ skipped' = skipped + 1
    /\ cur' = NoDoc
    /\ ck_pc' = "loop"
    /\ UNCHANGED <<region, docType, fetched, documents, valid_count, errors, report>>
    /\ UNCHANGED notCk

\* a document makes the loop body raise (a null name, sum or owner, an attribute that
\* is not a mapping, ...): the batch ends in the outer handler
EvaluateRaises ==
    /\ ck_pc = "loop"
    /\ idx < documents
    /\ Thrown("DataError", "data error")
    /\ cur' = [NoDoc EXCEPT !.id = idx + 1]
    /\ UNCHANGED <<region, docType, fetched, documents, idx, valid_count, errors, skipped>>
    /\ UNCHANGED notCk

\* after the loop: build and return the result
Finish ==
    /\ ck_pc = "loop"
    /\ idx = documents
    /\ report' = SuccessReport(documents, valid_count, errors)
    /\ ck_pc' = "done"
    /\ UNCHANGED <<region, docType, fetched, documents, idx, valid_count, errors, cur,
                   skipped>>
    /\ UNCHANGED notCk

CkNext ==
    \/ FetchReturnsDocuments
    \/ FetchReturnsNothing
    \/ FetchRaises
    \/ EvaluateDocument
    \/ FoldDocument
    \/ SkipDocument
    \/ ContinueLoop
    \/ EvaluateRaises
    \/ Finish


(***************************************************************************)
(* MonitoringServiceV2._validate_shipment_payment                          *)
(***************************************************************************)
\* contract conditions as sequences of words and separators (transliterated)
Prepayment == <<"Predoplata">>
Realization == <<"Realizatsiya">>
RealizationSalons == <<"Realizatsiya", " ", "Salony">>
Deferral30 == <<"Otsrochka", " ", "16", "-", "30", " ", "dney">>
Deferral60 == <<"Otsrochka", " ", "30", "-", "60", " ", "dney">>
Deferral61 == <<"Otsrochka", " ", "60", " ", "i", " ", "bolee", " ", "dney">>
WithoutContract == <<"Bez", " ", "dogovora">>
Sponsorship == <<"predostavleniya", " ", "bezvozmezdnoy", " ", "(", "sponsorskoy", ")",
                 " ", "pomoshchi">>
CommissionContract == <<"Dogovor", " ", "komissii">>
Barter == <<"Barter">>
NoCondition == << >>
Conditions == {Prepayment, Realization, RealizationSalons, Deferral30, Deferral60,
               Deferral61, WithoutContract, Sponsorship, CommissionContract, Barter,
               NoCondition}

\* str.lower() on the words of the model
Lower(w) ==
    CASE w = "Predoplata" -> "predoplata"
      [] w = "Realizatsiya" -> "realizatsiya"
      [] w = "Salony" -> "salony"
      [] w = "Otsrochka" -> "otsrochka"
      [] w = "Bez" -> "bez"
      [] w = "Dogovor" -> "dogovor"
      [] w = "Barter" -> "barter"
      [] w = "Kontakt" -> "kontakt"
      [] w = "Tsentr" -> "tsentr"
      [] w = "Ivanov" -> "ivanov"
      [] w = "Individual" -> "individual"
      [] w = "Legal" -> "legal"
      [] w = "Farma" -> "farma"
      [] w = "Marketpleysy" -> "marketpleysy"
      [] w = "Opt" -> "opt"
      [] w = "Krupnye" -> "krupnye"
      [] w = "Krupnyy" -> "krupnyy"
      [] w = "Seti" -> "seti"
      [] w = "Diler" -> "diler"
      [] w = "Apteki" -> "apteki"
      [] w = "Federalnye" -> "federalnye"
      [] OTHER -> w
IsAlnum(w) == w \notin {" ", "-", "(", ")"}

RECURSIVE Norm(_)
\* _norm: "".join(ch for ch in s.lower() if ch.isalnum())
Norm(sq) ==
    IF sq = << >> THEN << >>
    ELSE (IF IsAlnum(Lower(Head(sq))) THEN <<Lower(Head(sq))>> ELSE << >>) \o Norm(Tail(sq))

RECURSIVE Without(_, _)
\* str.replace(x, "")
Without(sq, x) ==
    IF sq = << >> THEN << >>
    ELSE (IF Head(sq) = x THEN << >> ELSE <<Head(sq)>>) \o Without(Tail(sq), x)

\* the "in" operator on strings
Contains(sq, part) ==
    \E i \in 0..(Len(sq) - Len(part)) : SubSeq(sq, i + 1, i + Len(part)) = part

skip_conditions == {Norm(WithoutContract), Norm(Sponsorship), Norm(CommissionContract)}

NoMoment == 0 - 1
Regions_Payment_M == {"RB", "RF", "KZ"}

\* if self.region not in {"RB", "RF"}: return ""
Regions_Payment == {"RB", "RF"}

\* pairs (payedSum, sum) in kopecks of the model's amounts for which the binary64 sum
\* payedSum / 100.0 + 0.01 rounds below sum / 100.0 although sum - payedSum is 1
RoundedBelow == {<<201, 202>>}

\* payed_sum + epsilon < total_sum, both amounts being kopecks / 100.0 in binary64
Underpaid(payedK, sumK) ==
    payedK + 1 < sumK \/ <<payedK, sumK>> \in RoundedBelow

\* the result of _validate_shipment_payment: "" or the kind of issue
ValidateShipmentPayment(rg, day, sh, cd) ==
    IF rg \notin Regions_Payment THEN ""
    ELSE IF sh.moment = NoMoment THEN ""
    ELSE IF sh.sum <= 0 THEN ""
    ELSE IF sh.contract # "linked" THEN ""
    ELSE IF cd.outcome # "returned" THEN ""
    ELSE IF cd.condition = << >> THEN ""
    ELSE LET days_passed == day - sh.moment
             condition_norm == Norm(cd.condition)
             unpaid == Underpaid(sh.payedSum, sh.sum) IN
         IF condition_norm \in skip_conditions THEN ""
         ELSE IF condition_norm = Norm(Prepayment)
              THEN (IF unpaid THEN "payment required" ELSE "")
         ELSE IF \/ Contains(condition_norm, <<"otsrochka", "16", "30">>)
                 \/ Contains(Without(condition_norm, " "), <<"otsrochka", "16", "-", "30">>)
              THEN (IF days_passed > 30 /\ unpaid THEN "deferral 16-30 expired" ELSE "")
         ELSE IF \/ Contains(condition_norm, <<"otsrochka", "30", "60">>)
                 \/ Contains(Without(condition_norm, " "), <<"otsrochka", "30", "-", "60">>)
              THEN (IF days_passed > 60 /\ unpaid THEN "deferral 30-60 expired" ELSE "")
         ELSE IF /\ Contains(condition_norm, <<"otsrochka", "60">>)
                 /\ Contains(condition_norm, <<"bolee">>)
              THEN (IF days_passed > 61 /\ unpaid THEN "deferral 60+ expired" ELSE "")
         ELSE ""

Sums == {0, 202, 10000}
PayedSums == {0, 200, 201, 202, 9998, 9999, 10000}
\* the contract of the document and what its link serves
ContractCases ==
    {[contract |-> "linked", outcome |-> "returned", condition |-> c] : c \in Conditions}
    \cup {[contract |-> "linked", outcome |-> "raises", condition |-> Deferral30],
          [contract |-> "missing", outcome |-> "returned", condition |-> Deferral30]}

PayIdle ==
    /\ pay_pc = "idle"
    /\ today = 0
    /\ shipment = [moment |-> 0, sum |-> 0, payedSum |-> 0, contract |-> "missing"]
    /\ contract_data = [outcome |-> "returned", condition |-> << >>]
    /\ payment_error = "unchecked"

PayInit ==
    /\ pay_pc = "run"
    /\ today = 0
    /\ \E m \in {0, NoMoment}, total \in Sums, cc \in ContractCases :
         /\ shipment = [moment |-> m, sum |-> total, payedSum |-> 0,
                        contract |-> cc.contract]
         /\ contract_data = [outcome |-> cc.outcome, condition |-> cc.condition]
    /\ payment_error = "unchecked"

\* the check runs on the document as it is today
ValidatePayment ==
    /\ pay_pc = "run"
    /\ payment_error = "unchecked"
    /\ payment_error' = ValidateShipmentPayment(region, today, shipment, contract_data)
    /\ UNCHANGED <<pay_pc, today, shipment, contract_data>>
    /\ UNCHANGED notPay

\* a day passes
NextDay ==
    /\ pay_pc = "run"
    /\ today < MaxDays
    /\ today' = today + 1
    /\ payment_error' = "unchecked"
    /\ UNCHANGED <<pay_pc, shipment, contract_data>>
    /\ UNCHANGED notPay

\* a payment is registered on the document
Payment ==
    /\ pay_pc = "run"
    /\ \E p \in PayedSums :
         /\ p > shipment.payedSum
         /\ shipment' = [shipment EXCEPT !.payedSum = p]
    /\ payment_error' = "unchecked"
    /\ UNCHANGED <<pay_pc, today, contract_data>>
    /\ UNCHANGED notPay

PayNext ==
    \/ ValidatePayment
    \/ NextDay
    \/ Payment



(***************************************************************************)
(* The resolver: MonitoringServiceV2._resolve_owner, _get_counterparty_type *)
(***************************************************************************)
OwnerIds == {"e1", "e2"}
NoName == << >>
ContactCentre == <<"Kontakt", "-", "Tsentr">>
Ivanov == <<"Ivanov">>
NotSpecified == <<"Ne", " ", "ukazan">>
\* Config.CONTACT_CENTER_EMPLOYEE
contact_center_employee == ContactCentre

\* owner fields of a document: None, or a reference with an inline name and / or a link
\* whose last path segment is id ("" for no link)
NoOwner == [dict |-> FALSE, name |-> NoName, id |-> ""]
Owners ==
    {NoOwner} \cup
    {[dict |-> TRUE, name |-> n, id |-> i] :
        n \in {NoName, ContactCentre, Ivanov}, i \in OwnerIds \cup {""}}

\* answers of the gateway for an employee link
EmployeeAnswers ==
    {[outcome |-> "raises", name |-> NoName, fullName |-> NoName],
     [outcome |-> "returned", name |-> ContactCentre, fullName |-> Ivanov],
     [outcome |-> "returned", name |-> NoName, fullName |-> Ivanov],
     [outcome |-> "returned", name |-> NoName, fullName |-> NoName]}

Blank(name) == Without(name, " ") = << >>

EmptyCache == [i \in OwnerIds |-> NoName]

ResolveOwner_M(owner, cache, employees) ==
    IF ~owner.dict THEN [name |-> NotSpecified, cache |-> cache, fetched |-> ""]
    ELSE IF Blank(owner.name) /\ owner.id # ""
         THEN LET data == employees[owner.id]
                  found == IF data.outcome # "returned" THEN owner.name
                           ELSE IF data.name # NoName THEN data.name
                           ELSE data.fullName IN
              [name |-> IF Blank(found) THEN NotSpecified ELSE found,
               cache |-> cache, fetched |-> owner.id]
         ELSE [name |-> IF Blank(owner.name) THEN NotSpecified ELSE owner.name,
               cache |-> cache, fetched |-> ""]

\* _resolve_owner(owner): the name, the cache afterwards, and the identifier fetched
\* ("" when the gateway was not asked)
ResolveOwner(owner, cache, employees) ==
    IF ~owner.dict THEN [name |-> NotSpecified, cache |-> cache, fetched |-> ""]
    ELSE IF Blank(owner.name) /\ owner.id # ""
         THEN IF cache[owner.id] # NoName
              THEN [name |-> cache[owner.id], cache |-> cache, fetched |-> ""]
              ELSE LET data == employees[owner.id]
                       found == IF data.outcome # "returned" THEN owner.name
                                ELSE IF data.name # NoName THEN data.name
                                ELSE data.fullName IN
                   [name |-> IF Blank(found) THEN NotSpecified ELSE found,
                    cache |-> IF data.outcome = "returned" /\ found # NoName
                              THEN [cache EXCEPT ![owner.id] = found]
                              ELSE cache,
                    fetched |-> owner.id]
         ELSE [name |-> IF Blank(owner.name) THEN NotSpecified ELSE owner.name,
               cache |-> cache, fetched |-> ""]

\* company types as the API and the attributes spell them; "" for none
TypeSpellings == {"", "legal", "individual", "Individual"}
NoneType == "None"
\* company_type.lower() if isinstance(company_type, str) else None
NormalizedType(t) == IF t = "" THEN NoneType ELSE Lower(t)

\* answers of the gateway for the counterparty link
AgentAnswers ==
    {[outcome |-> "raises", companyType |-> ""]} \cup
    {[outcome |-> "returned", companyType |-> t] : t \in TypeSpellings}

MemoValue_M(t) == IF t = "" THEN NoneType ELSE t

\* the value _get_counterparty_type writes under "_cached_company_type"
MemoValue(t) == NormalizedType(t)

MemoHit_M(memo) == memo.set /\ memo.value # NoneType

\* if cache_key in document
MemoHit(memo) == memo.set

\* _get_counterparty_type(document): the type, the memo afterwards, whether the
\* gateway was asked
GetCounterpartyType(doc, agent_data) ==
    IF MemoHit(doc.memo)
    THEN [type |-> doc.memo.value, memo |-> doc.memo, fetched |-> FALSE]
    ELSE LET asks == doc.agent.companyType = "" /\ doc.agent.href
             inline == doc.agent.companyType
             served == IF asks /\ agent_data.outcome = "returned"
                       THEN agent_data.companyType ELSE inline
             company_type == IF served = "" THEN doc.attr_company_type ELSE served IN
         [type |-> NormalizedType(company_type),
          memo |-> [set |-> TRUE, value |-> MemoValue(company_type)],
          fetched |-> asks]

(***************************************************************************)
(* MonitoringServiceV2._validate_sales_source                              *)
(***************************************************************************)
\* document.meta.type, lower case
MetaTypes == {"demand", "commissionreportin", "retaildemand", "salesreturn"}
\* the sale-source attribute of a document
SourceStates == {"absent", "empty", "filled"}

\* is_contact_center: the inline owner name, else the employee attribute
IsContactCenter(doc) ==
    \/ Norm(doc.owner.name) \in {Norm(contact_center_employee), <<"kontakt", "tsentr">>}
    \/ doc.cc_attribute

ShouldCheck_M(meta_type, is_contact_center, is_physical) ==
    is_contact_center \/ is_physical

\* should_check of _validate_sales_source
ShouldCheck(meta_type, is_contact_center, is_physical) ==
    IF meta_type \in {"demand", "commissionreportin"}
    THEN is_contact_center /\ is_physical
    ELSE is_contact_center \/ is_physical

\* _validate_sales_source(document), company_type being what _get_counterparty_type
\* returned inside it
ValidateSalesSource(doc, company_type) ==
    IF ~ShouldCheck(doc.meta_type, IsContactCenter(doc), company_type = "individual")
    THEN ""
    ELSE IF doc.source = "filled" THEN ""
    ELSE IF doc.source = "empty" THEN "source not filled"
    ELSE "source not found"

Documents ==
    [meta_type : MetaTypes,
     owner : Owners,
     agent : [companyType : {"", "legal", "individual"}, href : BOOLEAN],
     attr_company_type : {"", "Individual"},
     cc_attribute : BOOLEAN,
     source : SourceStates,
     memo : {[set |-> FALSE, value |-> NoneType]}]

Directories ==
    [employees : {[i \in OwnerIds |-> a] : a \in EmployeeAnswers},
     agent : AgentAnswers]

NoFetches == [owner |-> [i \in OwnerIds |-> 0], agent |-> 0, contract |-> 0]

ResIdle ==
    /\ res_pc = "idle"
    /\ owner_cache = EmptyCache
    /\ document = [meta_type |-> "demand", owner |-> NoOwner,
                   agent |-> [companyType |-> "", href |-> FALSE],
                   attr_company_type |-> "", cc_attribute |-> FALSE, source |-> "absent",
                   memo |-> [set |-> FALSE, value |-> NoneType]]
    /\ directory = [employees |-> [i \in OwnerIds |->
                        [outcome |-> "raises", name |-> NoName, fullName |-> NoName]],
                    agent |-> [outcome |-> "raises", companyType |-> ""]]
    /\ fetches = NoFetches
    /\ passes = << >>

ResInit ==
    /\ res_pc = "run"
    /\ owner_cache = EmptyCache
    /\ document \in Documents
    /\ directory \in Directories
    /\ fetches = NoFetches
    /\ passes = << >>

\* one pass of an evaluator over the document: the owner is resolved for the entry,
\* then the predicates run; the sale-source predicate resolves the company type
EvaluatePass ==
    /\ res_pc = "run"
    /\ Len(passes) < MaxPasses
    /\ document.owner.dict
    /\ LET ro == ResolveOwner(document.owner, owner_cache, directory.employees)
           ct == GetCounterpartyType(document, directory.agent) IN
         /\ owner_cache' = ro.cache
         /\ document' = [document EXCEPT !.memo = ct.memo]
         /\ fetches' = [owner |-> IF ro.fetched = "" THEN fetches.owner
                                  ELSE [fetches.owner EXCEPT ![ro.fetched] = @ + 1],
                        agent |-> fetches.agent + (IF ct.fetched THEN 1 ELSE 0),
                        contract |-> fetches.contract]
         /\ passes' = Append(passes,
                [owner_name |-> ro.name, company_type |-> ct.type,
                 source_error |-> ValidateSalesSource(document, ct.type)])
    /\ UNCHANGED <<res_pc, directory>>
    /\ UNCHANGED notRes

\* a document whose owner is null: _resolve_owner answers, then owner.get raises in
\* _validate_shipment_owner / _validate_sales_source
EvaluatePassRaises ==
    /\ res_pc = "run"
    /\ Len(passes) < MaxPasses
    /\ ~document.owner.dict
    /\ passes' = Append(passes,
           [owner_name |-> ResolveOwner(document.owner, owner_cache,
                                        directory.employees).name,
            company_type |-> NoneType, source_error |-> "AttributeError"])
    /\ UNCHANGED <<res_pc, owner_cache, document, directory, fetches>>
    /\ UNCHANGED notRes

\* a service instance about to resolve the owners of a sequence of documents
OwnersInit ==
    /\ res_pc = "owners"
    /\ owner_cache = EmptyCache
    /\ document = [meta_type |-> "demand", owner |-> NoOwner,
                   agent |-> [companyType |-> "", href |-> FALSE],
                   attr_company_type |-> "", cc_attribute |-> FALSE, source |-> "absent",
                   memo |-> [set |-> FALSE, value |-> NoneType]]
    /\ directory \in {d \in Directories : d.agent.outcome = "raises"}
    /\ fetches = NoFetches
    /\ passes = << >>

\* owner_name, owner_id = self._resolve_owner(document.get("owner")) for the next
\* document of the instance
ResolveNextOwner ==
    /\ res_pc = "owners"
    /\ Len(passes) < MaxResolutions
    /\ \E o \in Owners :
         LET ro == ResolveOwner(o, owner_cache, directory.employees) IN
         /\ document' = [document EXCEPT !.owner = o]
         /\ owner_cache' = ro.cache
         /\ fetches' = [fetches EXCEPT !.owner =
                            IF ro.fetched = "" THEN @ ELSE [@ EXCEPT ![ro.fetched] = @ + 1]]
         /\ passes' = Append(passes, [owner |-> o, owner_name |-> ro.name,
                                      fetched |-> ro.fetched, cache |-> ro.cache])
    /\ UNCHANGED <<res_pc, directory>>
    /\ UNCHANGED notRes

\* the predicates of check_shipments_period that ask for the company type, in the
\* order of the loop body; two of them return before asking outside their region
TypeCallers(rg) ==
    <<"source", "contract">>
    \o (IF rg = "RF" THEN <<"contract_type_shipment">> ELSE << >>)
    \o (IF rg = "RB" THEN <<"payment_method">> ELSE << >>)

\* one shipment at the top of the loop body
TypesInit ==
    /\ res_pc = "types"
    /\ owner_cache = EmptyCache
    /\ document \in {d \in Documents :
                         /\ d.meta_type = "demand" /\ d.owner = NoOwner
                         /\ ~d.cc_attribute /\ d.source = "absent"}
    /\ directory \in {d \in Directories : d.employees["e1"].outcome = "raises"}
    /\ fetches = NoFetches
    /\ passes = << >>

\* company_type = self._get_counterparty_type(shipment) in the next predicate
NextCallerGetsType ==
    /\ res_pc = "types"
    /\ Len(passes) < Len(TypeCallers(region))
    /\ LET ct == GetCounterpartyType(document, directory.agent) IN
         /\ document' = [document EXCEPT !.memo = ct.memo]
         /\ fetches' = [fetches EXCEPT !.agent = @ + (IF ct.fetched THEN 1 ELSE 0)]
         /\ passes' = Append(passes, [caller |-> TypeCallers(region)[Len(passes) + 1],
                                      company_type |-> ct.type, fetched |-> ct.fetched])
    /\ UNCHANGED <<res_pc, owner_cache, directory>>
    /\ UNCHANGED notRes

\* the predicates of check_shipments_period that read the contract, in the order of
\* the loop body
ContractReaders == <<"contract_fields", "contract_type_shipment", "payment">>

\* shipments as far as these predicates look at them before asking for the contract
ContractShipments ==
    [contract_href : BOOLEAN, company_type : {"legal", "entrepreneur", "individual", NoneType},
     moment : BOOLEAN, sum : {0, 100}]

\* does predicate p reach its self.moysklad_client._make_request(contract_href ...)
RequestsContract(p, rg, sh) ==
    /\ sh.contract_href
    /\ CASE p = "contract_fields" -> TRUE
         [] p = "contract_type_shipment" ->
              rg = "RF" /\ sh.company_type \in {"legal", "entrepreneur"}
         [] p = "payment" -> rg \in {"RB", "RF"} /\ sh.moment /\ sh.sum > 0

ContractInit ==
    /\ res_pc = "contract"
    /\ owner_cache = EmptyCache
    /\ document \in ContractShipments
    /\ directory \in {d \in Directories : d.employees["e1"].outcome = "raises"
                                           /\ d.agent.outcome = "raises"}
    /\ fetches = NoFetches
    /\ passes = << >>

\* the next of the three predicates runs on the shipment
NextPredicateReadsContract ==
    /\ res_pc = "contract"
    /\ Len(passes) < Len(ContractReaders)
    /\ LET p == ContractReaders[Len(passes) + 1]
           asks == RequestsContract(p, region, document) IN
         /\ fetches' = [fetches EXCEPT !.contract = @ + (IF asks THEN 1 ELSE 0)]
         /\ passes' = Append(passes, [predicate |-> p, fetched |-> asks])
    /\ UNCHANGED <<res_pc, owner_cache, document, directory>>
    /\ UNCHANGED notRes

ResNext ==
    \/ EvaluatePass
    \/ EvaluatePassRaises

(***************************************************************************)
(* MonitoringServiceV2._validate_shipment_project                          *)
(***************************************************************************)
\* CHANNEL_PROJECT_MAPPING, in the order of the dict
CHANNEL_PROJECT_MAPPING ==
    << [key |-> <<"seti">>, projects |-> << <<"federalnye">>, <<"regionalnye">>, <<"lokalnye">> >>],
       [key |-> <<"opt">>, projects |-> << <<"krupnyy", "opt">>, <<"sredniy", "opt">>, <<"salony">> >>],
       [key |-> <<"farma">>, projects |-> << <<"apteki">> >>],
       [key |-> <<"eksport">>, projects |-> << <<"eksport", "aziya">> >>],
       [key |-> <<"tranzity">>, projects |-> << <<"evropa">>, <<"oae">>, <<"kazakhstan">>,
                                                <<"belarus">>, <<"rossiya">> >>],
       [key |-> <<"marketpleysy">>, projects |-> << >>],
       [key |-> <<"roznitsa", "im">>, projects |-> << >>],
       [key |-> <<"roznitsa", "oflayn">>, projects |-> << >>],
       [key |-> <<"roznitsa", "uslugi">>, projects |-> << >>],
       [key |-> <<"roznitsa", "sertifikaty">>, projects |-> << >>],
       [key |-> <<"ctm">>, projects |-> << >>] >>

\* sales-channel names and project names of the documents; << >> is no name
ChannelNames ==
    {<< >>, <<"Farma">>, <<"Marketpleysy">>, <<"Opt">>, <<"Krupnye", " ", "Seti">>,
     <<"-">>, <<"Diler">>}
ProjectNames == {<< >>, <<"Apteki">>, <<"Krupnyy", " ", "Opt">>, <<"Federalnye">>}

NoProjectIssue == [error |-> "", expected |-> << >>]

KeyMatches_M(channel_key, channel_norm) == Contains(channel_norm, channel_key)

\* channel_key in channel_norm or channel_norm in channel_key
KeyMatches(channel_key, channel_norm) ==
    Contains(channel_norm, channel_key) \/ Contains(channel_key, channel_norm)

\* _validate_shipment_project for a document with these channel and project names
ValidateShipmentProject(sales_channel_name, project_name) ==
    IF sales_channel_name = << >> THEN NoProjectIssue
    ELSE LET channel_norm == Norm(sales_channel_name)
             found == {i \in DOMAIN CHANNEL_PROJECT_MAPPING :
                          KeyMatches(CHANNEL_PROJECT_MAPPING[i].key, channel_norm)} IN
         IF found = {} THEN NoProjectIssue
         ELSE LET first == CHOOSE i \in found : \A j \in found : i <= j
                  allowed_projects == CHANNEL_PROJECT_MAPPING[first].projects IN
              IF allowed_projects = << >> THEN NoProjectIssue
              ELSE IF project_name = << >>
              THEN [error |-> "project required", expected |-> allowed_projects]
              ELSE IF Norm(project_name) \notin {Norm(p) : p \in Range(allowed_projects)}
              THEN [error |-> "wrong project", expected |-> allowed_projects]
              ELSE NoProjectIssue

(***************************************************************************)
(* MonitoringServiceV2._validate_unp                                       *)
(***************************************************************************)
IsDigit(ch) == ch \in {"0", "1", "2", "3", "4", "5", "6", "7", "8", "9"}

\* ''.join(char for char in s if char.isdigit())
DigitsOf(sq) == SelectSeq(sq, IsDigit)

\* str.isdigit()
IsDigitString(sq) == sq # << >> /\ \A i \in DOMAIN sq : IsDigit(sq[i])

Ones(n) == [i \in 1..n |-> "1"]

\* tax IDs: n digits, alone, behind a dash, or followed by a letter; a word
TaxIds ==
    {Ones(n) : n \in 0..MaxDigits} \cup {<<"-">> \o Ones(n) : n \in 1..MaxDigits}
    \cup {Ones(n) \o <<"A">> : n \in 1..MaxDigits} \cup {<<"A", "B">>}

Contractors_Unp ==
    [kind : {"unp"}, companyType : {"", "legal", "Legal", "entrepreneur", "individual"},
     inn : TaxIds, code : {<< >>, Ones(9)}]

\* _validate_unp(contractor) in a region
ValidateUnp(rg, contractor) ==
    LET company_type == Lower(contractor.companyType)
        unp == IF contractor.inn # << >> THEN contractor.inn ELSE contractor.code
        unp_clean == DigitsOf(unp) IN
    IF company_type \notin {"legal", "entrepreneur"} THEN ""
    ELSE IF unp = << >> THEN "not filled"
    ELSE IF rg = "RB" /\ Len(unp_clean) # 9 THEN "length RB"
    ELSE IF rg = "RF" /\ company_type = "legal" /\ Len(unp_clean) # 10 THEN "length RF legal"
    ELSE IF rg = "RF" /\ company_type = "entrepreneur" /\ Len(unp_clean) # 12
    THEN "length RF entrepreneur"
    ELSE IF ~IsDigitString(unp_clean) THEN "invalid characters"
    ELSE ""

(***************************************************************************)
(* MonitoringServiceV2._extract_contractor_phone, _validate_phone          *)
(***************************************************************************)
RECURSIVE LStrip(_)
LStrip(sq) == IF sq # << >> /\ Head(sq) = " " THEN LStrip(Tail(sq)) ELSE sq
RECURSIVE RStrip(_)
RStrip(sq) ==
    IF sq # << >> /\ sq[Len(sq)] = " " THEN RStrip(SubSeq(sq, 1, Len(sq) - 1)) ELSE sq
\* str.strip()
Strip(sq) == RStrip(LStrip(sq))

\* str.startswith
StartsWith(sq, pref) == Len(sq) >= Len(pref) /\ SubSeq(sq, 1, Len(pref)) = pref

ExamplePhoneRB == <<"+", "3", "7", "5", "2", "9", "1", "2", "3", "4", "5", "6", "7">>
ExamplePhone80 == <<"8", "0", "2", "9", "1", "2", "3", "4", "5", "6", "7">>
PhoneLeads == {<<"3", "7", "5">>, <<"3", "7">>, <<"7">>, <<"8">>, <<"9">>}
Phones ==
    {pre \o lead \o Ones(n) : pre \in {<< >>, <<"+">>}, lead \in PhoneLeads, n \in 0..MaxTail}
    \cup {<< >>, <<"-">>, <<" ">>, ExamplePhoneRB, ExamplePhone80}

Contractors_Phone ==
    [kind : {"phone"}, phone : Phones,
     attr_phone : {<< >>, <<" ">>, <<" ">> \o ExamplePhoneRB}]

\* _extract_contractor_phone(contractor); attr_phone is the value of the first
\* attribute whose name contains the phone token
ExtractContractorPhone(contractor) ==
    IF contractor.phone # << >> THEN Strip(contractor.phone)
    ELSE IF Strip(contractor.attr_phone) # << >> THEN Strip(contractor.attr_phone)
    ELSE << >>

PhonePrefixes_M(rg) == IF rg = "RB" THEN {<<"3", "7", "5">>} ELSE {<<"7">>}

\* the prefixes _starts_with is called with in a region
PhonePrefixes(rg) ==
    CASE rg = "RB" -> {<<"3", "7", "5">>}
      [] rg = "RF" -> {<<"7">>, <<"8">>}
      [] rg = "KZ" -> {<<"7">>}
      [] OTHER -> {}

\* the length a region requires
PhoneLength(rg) == IF rg = "RB" THEN 12 ELSE 11

\* _validate_phone(phone) in a region
ValidatePhone(rg, phone) ==
    LET clean_phone == DigitsOf(phone) IN
    IF phone = << >> THEN "not given"
    ELSE IF clean_phone = << >> THEN "invalid characters"
    ELSE IF rg \in {"RB", "RF", "KZ"}
    THEN IF ~\E pref \in PhonePrefixes(rg) : StartsWith(clean_phone, pref) THEN "prefix"
         ELSE IF Len(clean_phone) # PhoneLength(rg) THEN "length"
         ELSE ""
    ELSE IF Len(clean_phone) < 10 THEN "too short"
    ELSE IF Len(clean_phone) > 15 THEN "too long"
    ELSE ""

(***************************************************************************)
(* MonitoringServiceV2._validate_shipment_prices, _validate_sale_prices,   *)
(* _validate_commission_prices                                             *)
(***************************************************************************)
\* unit prices of line items, in kopecks
Prices == {0, 1, 100}

\* document types whose evaluator checks prices
PricedTypes == {dt \in DocTypes : "price" \in Pipeline(dt)}

PricedDocuments ==
    [kind : {"prices"}, docType : PricedTypes, companyType : {"legal", "individual"},
     positions : UNION {[1..n -> Prices] : n \in 0..MaxPositions}]

IsZeroPrice_M(kopecks) == kopecks \div 100 = 0

\* price = position.get("price", 0) / 100; price == 0
IsZeroPrice(kopecks) == kopecks \div 100 = 0 /\ kopecks % 100 = 0

RECURSIVE ValidatePrices(_)
\* the price_errors list: one entry per position with a zero price, in order
ValidatePrices(positions) ==
    IF positions = << >> THEN << >>
    ELSE (IF IsZeroPrice(Head(positions))
          THEN <<[issue |-> "zero price", price |-> 0]>> ELSE << >>)
         \o ValidatePrices(Tail(positions))

(***************************************************************************)
(* MonitoringServiceV2._validate_contractor_contract_type, _client_type,   *)
(* _region and their gate in check_contractors_period                      *)
(***************************************************************************)
\* an attribute of a counterparty: not in the list, value None or blank, a non-blank
\* string, a reference with a name, a reference with a link and no name
AttributeStates == {"absent", "empty", "string", "named_reference", "bare_reference"}

Contractors_Attributes ==
    [kind : {"attributes"}, companyType : {"legal", "entrepreneur", "individual"},
     contract_type : AttributeStates, client_type : AttributeStates,
     region_rb : AttributeStates]

\* the loop over attributes the three predicates share
ValidateReferenceAttribute(state) ==
    IF state = "absent" THEN "not found"
    ELSE IF state \in {"string", "named_reference"} THEN ""
    ELSE "not filled"

ValidateContractorContractType(rg, contractor) ==
    IF rg \notin {"RB", "RF"} THEN "" ELSE ValidateReferenceAttribute(contractor.contract_type)
ValidateContractorClientType(rg, contractor) ==
    IF rg \notin {"RB", "RF"} THEN "" ELSE ValidateReferenceAttribute(contractor.client_type)
ValidateContractorRegion(rg, contractor) ==
    IF rg # "RB" THEN "" ELSE ValidateReferenceAttribute(contractor.region_rb)

\* contract_type_error, client_type_error, region_error of check_contractors_period
ContractorAttributeErrors(rg, contractor) ==
    IF contractor.companyType \in {"legal", "entrepreneur"}
    THEN [contract_type |-> ValidateContractorContractType(rg, contractor),
          client_type |-> ValidateContractorClientType(rg, contractor),
          region |-> ValidateContractorRegion(rg, contractor)]
    ELSE [contract_type |-> "", client_type |-> "", region |-> ""]

(***************************************************************************)
(* One predicate applied to one document                                   *)
(***************************************************************************)
ProjectDocuments == [kind : {"project"}, channel : ChannelNames, project : ProjectNames]

FldIdle ==
    /\ fld_pc = "idle"
    /\ subject = [kind |-> "none"]
    /\ verdict = ""

FldInit ==
    /\ fld_pc = "input"
    /\ subject \in ProjectDocuments \cup Contractors_Unp \cup Contractors_Phone
                   \cup PricedDocuments \cup Contractors_Attributes
    /\ verdict = ""

ApplyValidateShipmentProject ==
    /\ fld_pc = "input"
    /\ subject.kind = "project"
    /\ verdict' = ValidateShipmentProject(subject.channel, subject.project)
    /\ fld_pc' = "done"
    /\ UNCHANGED subject
    /\ UNCHANGED notFld

ApplyValidateUnp ==
    /\ fld_pc = "input"
    /\ subject.kind = "unp"
    /\ verdict' = ValidateUnp(region, subject)
    /\ fld_pc' = "done"
    /\ UNCHANGED subject
    /\ UNCHANGED notFld

ApplyValidatePhone ==
    /\ fld_pc = "input"
    /\ subject.kind = "phone"
    /\ verdict' = ValidatePhone(region, ExtractContractorPhone(subject))
    /\ fld_pc' = "done"
    /\ UNCHANGED subject
    /\ UNCHANGED notFld

ApplyValidatePrices ==
    /\ fld_pc = "input"
    /\ subject.kind = "prices"
    /\ verdict' = ValidatePrices(subject.positions)
    /\ fld_pc' = "done"
    /\ UNCHANGED subject
    /\ UNCHANGED notFld

ApplyContractorAttributes ==
    /\ fld_pc = "input"
    /\ subject.kind = "attributes"
    /\ verdict' = ContractorAttributeErrors(region, subject)
    /\ fld_pc' = "done"
    /\ UNCHANGED subject
    /\ UNCHANGED notFld

FldNext ==
    \/ ApplyContractorAttributes
    \/ ApplyValidateShipmentProject
    \/ ApplyValidateUnp
    \/ ApplyValidatePhone
    \/ ApplyValidatePrices

(***************************************************************************)
(* MoySkladClient.get_*_for_period against a collection served in pages    *)
(***************************************************************************)
\* the rows of the response to a list request: the remote service serves at most
\* page_size rows, starting at the offset asked for
ServePage(matching, size, offset) == Min(size, Max(0, matching - offset))

PgIdle ==
    /\ pg_pc = "idle"
    /\ collection = "contractors"
    /\ remote = 0
    /\ page_size = 1
    /\ offsets = << >>
    /\ rows = 0

PgInit ==
    /\ pg_pc = "start"
    /\ collection \in DocTypes
    /\ remote \in 0..MaxRemote
    /\ page_size \in 1..MaxPage
    /\ offsets = << >>
    /\ rows = 0

\* data = self._make_request(path, params): the one list request of a period fetch;
\* params holds "filter" (and "expand"), neither "limit" nor "offset"
PeriodRequest ==
    /\ pg_pc = "start"
    /\ offsets' = Append(offsets, 0)
    /\ rows' = ServePage(remote, page_size, 0)
    /\ pg_pc' = "answered"
    /\ UNCHANGED <<collection, remote, page_size>>
    /\ UNCHANGED notPg

\* return data.get("rows", [])
PeriodReturn ==
    /\ pg_pc = "answered"
    /\ pg_pc' = "returned"
    /\ UNCHANGED <<collection, remote, page_size, offsets, rows>>
    /\ UNCHANGED notPg

PgNext ==
    \/ PeriodRequest
    \/ PeriodReturn

(***************************************************************************)
(* MonitoringServiceV2.run_monitoring                                      *)
(***************************************************************************)
\* the checks of a run, in order; the three return checks only for RB and RF
RunOrder(rg) ==
    <<"contractors", "shipments", "commission", "sales">> \o
    (IF rg \in {"RB", "RF"}
     THEN <<"sales_returns", "retail_returns", "commission_returns">>
     ELSE << >>)

\* the methods class Bitrix24Client defines
Bitrix24Methods ==
    {"send_message_to_chat", "send_file_to_chat", "send_shipment_errors_summary"}

\* the method run_monitoring calls on self.bitrix24_client for the errors of a check
NotificationOf(dt) ==
    CASE dt = "contractors" -> "send_contractor_notification"
      [] dt = "shipments" -> "send_shipment_notification"
      [] OTHER -> "send_price_notification"

\* attribute lookup on the client: a name the class does not define raises
\* AttributeError
Raises(method) == method \notin Bitrix24Methods

RECURSIVE IncreasingSeqs(_, _)
\* the increasing sequences over lo..hi: the documents with issues among those returned
IncreasingSeqs(lo, hi) ==
    IF lo > hi THEN {<< >>}
    ELSE IncreasingSeqs(lo + 1, hi)
         \cup {<<lo>> \o t : t \in IncreasingSeqs(lo + 1, hi)}

\* the reports check_*_period can return
SuccessReports ==
    UNION {{SuccessReport(n, n - Len(errs), errs) : errs \in IncreasingSeqs(1, n)} :
              n \in 0..MaxDocs}
CheckReports(dt) ==
    SuccessReports
    \cup {ErrorReport("error")}
    \cup (IF dt \in {"contractors", "shipments"} THEN {LimitReport(DailyLimitText)} ELSE {})

RunIdle ==
    /\ run_pc = "idle"
    /\ reports = << >>
    /\ total_issues = 0
    /\ sent = << >>
    /\ run_result = "none"

RunInit ==
    /\ run_pc = "checks"
    /\ reports = << >>
    /\ total_issues = 0
    /\ sent = << >>
    /\ run_result = "none"

\* the outer "except Exception" of run_monitoring: it notifies and returns False
RunFails ==
    IF Raises("send_notification")
    THEN /\ run_result' = "AttributeError"
         /\ sent' = sent
    ELSE /\ run_result' = "False"
         /\ sent' = Append(sent, "send_notification")

\* the next check returns a report without error entries: nothing is notified
RunCheckWithoutErrors ==
    /\ run_pc = "checks"
    /\ Len(reports) < Len(RunOrder(region))
    /\ \E r \in CheckReports(RunOrder(region)[Len(reports) + 1]) :
         /\ r.errors = << >>
         /\ reports' = Append(reports, r)
    /\ UNCHANGED <<run_pc, total_issues, sent, run_result>>
    /\ UNCHANGED notRun

\* the next check returns error entries: they are counted and notified
RunCheckWithErrors ==
    /\ run_pc = "checks"
    /\ Len(reports) < Len(RunOrder(region))
    /\ LET dt == RunOrder(region)[Len(reports) + 1] IN
       \E r \in CheckReports(dt) :
         /\ r.errors # << >>
         /\ reports' = Append(reports, r)
         /\ total_issues' = total_issues + Len(r.errors)
         /\ IF Raises(NotificationOf(dt))
            THEN /\ RunFails
                 /\ run_pc' = "done"
            ELSE /\ sent' = Append(sent, NotificationOf(dt))
                 /\ UNCHANGED <<run_pc, run_result>>
    /\ UNCHANGED notRun

\* after the last check: the summary notification, return True
RunSummary ==
    /\ run_pc = "checks"
    /\ Len(reports) = Len(RunOrder(region))
    /\ IF Raises("send_notification")
       THEN RunFails
       ELSE /\ sent' = Append(sent, "send_notification")
            /\ run_result' = "True"
    /\ run_pc' = "done"
    /\ UNCHANGED <<reports, total_issues>>
    /\ UNCHANGED notRun

RunNext ==
    \/ RunCheckWithoutErrors
    \/ RunCheckWithErrors
    \/ RunSummary

(***************************************************************************)
(* Specifications                                                          *)
(***************************************************************************)
\* the gateway alone: a client instance serving MaxCalls calls
InitGateway == GwInit /\ CkIdle /\ PayIdle /\ RunIdle /\ ResIdle /\ FldIdle /\ PgIdle
SpecGateway == InitGateway /\ [][GwNext]_vars
\* requests.get runs with timeouts, every sleep is finite: an iteration always completes
FairGateway == SpecGateway /\ WF_vars(GwStep)

\* one period check against a gateway whose list fetch ends in any of its outcomes
InitCheck == GwIdle /\ CkInit /\ PayIdle /\ RunIdle /\ ResIdle /\ FldIdle /\ PgIdle
SpecCheck == InitCheck /\ [][CkNext]_vars

\* the payment check on one document of any region as days pass and payments arrive
InitPay == GwIdle /\ CkRegion /\ PayInit /\ RunIdle /\ ResIdle /\ FldIdle /\ PgIdle
SpecPay == InitPay /\ [][PayNext]_vars

\* one run_monitoring call of a service of any region, over every report the checks return
InitRun == GwIdle /\ CkRegion /\ PayIdle /\ RunInit /\ ResIdle /\ FldIdle /\ PgIdle
SpecRun == InitRun /\ [][RunNext]_vars

\* MaxPasses evaluator passes over one document, the caches kept between them
InitResolve == GwIdle /\ CkIdle /\ PayIdle /\ RunIdle /\ ResInit /\ FldIdle /\ PgIdle
SpecResolve == InitResolve /\ [][ResNext]_vars

\* one service instance resolving the owners of MaxResolutions documents
InitOwners == GwIdle /\ CkIdle /\ PayIdle /\ RunIdle /\ OwnersInit /\ FldIdle /\ PgIdle
SpecOwners == InitOwners /\ [][ResolveNextOwner]_vars

\* the predicates of one pass asking for the company type of one shipment
InitTypes == GwIdle /\ CkRegion /\ PayIdle /\ RunIdle /\ TypesInit /\ FldIdle /\ PgIdle
SpecTypes == InitTypes /\ [][NextCallerGetsType]_vars

\* the predicates of one pass that read the contract of one shipment
InitContract == GwIdle /\ CkRegion /\ PayIdle /\ RunIdle /\ ContractInit /\ FldIdle /\ PgIdle
SpecContract == InitContract /\ [][NextPredicateReadsContract]_vars

\* one field predicate applied to one document in one region
InitField == GwIdle /\ CkRegion /\ PayIdle /\ RunIdle /\ ResIdle /\ FldInit /\ PgIdle
SpecField == InitField /\ [][FldNext]_vars

\* one period fetch of one document type
InitFetch == GwIdle /\ CkIdle /\ PayIdle /\ RunIdle /\ ResIdle /\ FldIdle /\ PgInit
SpecFetch == InitFetch /\ [][PgNext]_vars

(***************************************************************************)
(* Claims about the gateway                                                *)
(***************************************************************************)
\* the bookkeeping of one call: requests sent, 429 answers, sleeps, other answers
C7_Counts ==
    /\ calllog.requests <= 6
    /\ calllog.other <= 1
    /\ (gw_pc = "loop" =>
          /\ calllog.other = 0
          /\ calllog.answers429 = calllog.requests
          /\ calllog.sleeps = calllog.answers429
          /\ calllog.requests <= 5)
    /\ (gw_pc = "idle" /\ callCount > 0 =>
          /\ gw_outcome \in {"returned", "HTTPError429", "HTTPError", "RequestException"}
          /\ (gw_outcome = "HTTPError429" <=> calllog.other = 0)
          /\ (gw_outcome = "HTTPError429" =>
                calllog.answers429 = 6 /\ calllog.sleeps = 5)
          /\ (gw_outcome # "HTTPError429" =>
                calllog.sleeps = calllog.answers429 /\ calllog.answers429 <= 5))
\* C7: within one call a 429 answer is retried up to the ceiling of 5: the call sends at
\* most 6 requests, sleeps a backoff before each retry, raises the rate-limit error after
\* the 6th 429, never retries an answer other than 429, and always ends.
C7_BoundedRetry == [](C7_Counts) /\ ((gw_pc = "loop") ~> (gw_pc = "idle"))
C7_Witness ==
    /\ gw_pc = "idle"
    /\ gw_outcome = "HTTPError429"
    /\ calllog.requests = 6
    /\ calllog.sleeps = 5

\* C8: the backoff sleep before a 429 retry is max(Retry-After, 1) seconds when the header
\* parses and min(30, 2^attempt) otherwise, attempt being the 1-based count of 429 answers
\* of the call; without a header attempt 3 sleeps 8 seconds and no sleep exceeds 30.
C8_BackoffDelay ==
    backoff.attempt > 0 =>
      /\ (gw_pc = "loop" =>
            /\ backoff.attempt = calllog.answers429
            /\ now - last_request_time = backoff.wait_time)
      /\ (backoff.header.present /\ backoff.header.parses =>
            /\ backoff.wait_time >= backoff.header.seconds
            /\ backoff.wait_time >= 1
            /\ backoff.wait_time \in {backoff.header.seconds, 1})
      /\ (~(backoff.header.present /\ backoff.header.parses) =>
            /\ backoff.wait_time = <<2, 4, 8, 16, 30>>[backoff.attempt]
            /\ backoff.wait_time <= 30)
C8_Witness ==
    /\ gw_pc = "loop"
    /\ ~backoff.header.present
    /\ backoff.attempt = 3
    /\ backoff.wait_time = 8

\* C9: with a positive minimum delay, any two consecutive requests of one client instance
\* are sent at least min_delay apart, and the first request is not delayed.
C9_MinDelayBetweenRequests ==
    /\ (min_delay > 0 /\ issue.count >= 2 => issue.last - issue.prev >= min_delay)
    /\ (issue.count = 1 => issue.slept = 0)


(***************************************************************************)
(* Claims about the period checks                                          *)
(***************************************************************************)
QuotaFailure(f) ==
    f.outcome = "HTTPError429" \/ (f.outcome # "returned" /\ f.limit_text)
TransientFailure(f) ==
    f.outcome \in {"HTTPError", "RequestException"} /\ ~f.limit_text
HasMessage(r) == r.error # "" \/ r.error_message # ""

\* C1: for each of the seven document types, a list fetch that ends in a 429 past the
\* retry ceiling or in a daily-quota failure gives a report with status error and a
\* message, never a success report with total 0.
C1_QuotaFailureReported ==
    ck_pc = "done" /\ QuotaFailure(fetched) =>
        report.status = "error" /\ HasMessage(report)

\* C2: for each document type, a list fetch that fails with a transient error (HTTP
\* error other than 429, or a network failure) gives a report with status error that
\* carries the message, never an empty success report.
C2_TransientFailureReported ==
    ck_pc = "done" /\ TransientFailure(fetched) =>
        report.status = "error" /\ HasMessage(report)

\* C3: no period check lets an exception escape: for every outcome of the list fetch
\* and every document content the check ends by returning a report whose status is
\* success or error.
C3_NoExceptionEscapes ==
    /\ ck_pc # "escaped"
    /\ (ck_pc = "done" => report.status \in {"success", "error"})
C3_Witness ==
    /\ ck_pc = "done"
    /\ cur.id = 2
    /\ report.status = "error"
    /\ report.error_message = "data error"

\* C4: in every success report the evaluator was applied to every returned document
\* and each document is counted once, as valid or as one entry of errors:
\* total = valid + number of entries in errors.
C4_TotalIsValidPlusErrors ==
    ck_pc = "done" /\ report.status = "success" =>
        /\ skipped = 0
        /\ report.total = report.valid + Len(report.errors)

RECURSIVE SumOver(_, _)
SumOver(f, S) ==
    IF S = {} THEN 0
    ELSE LET x == CHOOSE y \in S : TRUE IN f[x] + SumOver(f, S \ {x})
Occurrences(sq, x) == Cardinality({i \in DOMAIN sq : sq[i] = x})

\* C5: for every document the number of entries of issues equals the number of called
\* predicates with a non-empty result, one per flagged line item for the price
\* predicate: each failing predicate has exactly its own entries, none is dropped,
\* merged or repeated.
C5_IssuesMatchResults ==
    ck_pc = "fold" /\ ~cur.skipped =>
        /\ Len(cur.issues) = SumOver(cur.results, Pipeline(docType))
        /\ Range(cur.issues) \subseteq cur.ran
        /\ \A p \in Pipeline(docType) : Occurrences(cur.issues, p) = cur.results[p]
C5_Witness ==
    /\ ck_pc = "fold"
    /\ docType = "shipments"
    /\ cur.results["price"] = 2
    /\ cur.results["contract"] = 1
    /\ cur.results["contract_fields"] = 1
    /\ Len(cur.issues) = 4

\* the predicates an evaluator owes a document of this region and company type
ActivePipeline(dt, rg, ct) == {p \in Pipeline(dt) : Gate(p, dt, rg, ct)}

Threshold(c) ==
    CASE c = Deferral30 -> 30
      [] c = Deferral60 -> 60
      [] c = Deferral61 -> 61
      [] OTHER -> 0

\* C10: for a document of region RB or RF with sum > 0 whose linked contract has a
\* deferral condition with threshold T (30, 60, 61), the payment check produces an issue
\* if and only if more than T days have elapsed and payedSum < sum - 0.01 (in kopecks:
\* payedSum + 1 < sum).
C10_DeferralIssueIffOverdueAndUnpaid ==
    (/\ payment_error # "unchecked"
     /\ region \in {"RB", "RF"}
     /\ shipment.moment # NoMoment
     /\ shipment.sum > 0
     /\ shipment.contract = "linked"
     /\ contract_data.outcome = "returned"
     /\ Threshold(contract_data.condition) > 0)
    => (payment_error # "" <=>
          /\ today - shipment.moment > Threshold(contract_data.condition)
          /\ shipment.payedSum + 1 < shipment.sum)

\* C11: for a document of region RB or RF whose linked contract has the prepayment
\* condition, the payment check produces an issue if and only if payedSum < sum - 0.01
\* (in kopecks: payedSum + 1 < sum), whatever the number of days elapsed.
C11_PrepaymentIssueIffUnpaid ==
    (/\ payment_error # "unchecked"
     /\ region \in {"RB", "RF"}
     /\ shipment.moment # NoMoment
     /\ shipment.contract = "linked"
     /\ contract_data.outcome = "returned"
     /\ contract_data.condition = Prepayment)
    => (payment_error # "" <=> shipment.payedSum + 1 < shipment.sum)

C13_BatchFailureIsolated ==
    (/\ run_pc = "done"
     /\ \E i \in DOMAIN reports : reports[i].status = "error")
    => /\ Len(reports) = Len(RunOrder(region))
       /\ \A i \in DOMAIN reports :
            reports[i].errors # << >> =>
                \E j \in DOMAIN sent : sent[j] = NotificationOf(RunOrder(region)[i])

\* a failure whose message carries the limit wording, and the retry ceiling after 429s
DailyQuotaFailure(f) == f.outcome # "returned" /\ f.limit_text
CeilingFailure(f) == f.outcome = "HTTPError429"
MessageOf(r) == IF r.error # "" THEN r.error ELSE r.error_message

\* C14: a daily-quota failure gives a report with status error whose message differs
\* from the message of a failure at the 429 retry ceiling and from the message of any
\* other transient error: the daily-quota message appears for a daily-quota failure only.
C14_DailyQuotaMessageDistinct ==
    ck_pc = "done" =>
        /\ (DailyQuotaFailure(fetched) =>
               report.status = "error" /\ MessageOf(report) = DailyLimitText)
        /\ (CeilingFailure(fetched) \/ TransientFailure(fetched) =>
               MessageOf(report) # DailyLimitText)

\* C15: a second pass of the same evaluator over the same document, with the owner
\* cache and the company-type memo written by the first pass and the gateway serving
\* the same data, yields the same issues (and the same owner and company type).
C15_SecondPassSameIssues ==
    \A i \in DOMAIN passes :
        /\ passes[i].source_error = passes[1].source_error
        /\ passes[i].company_type = passes[1].company_type
        /\ passes[i].owner_name = passes[1].owner_name
C15_Witness ==
    /\ Len(passes) = 2
    /\ document.memo.set
    /\ document.attr_company_type = "Individual"
    /\ passes[2].company_type = "individual"
    /\ passes[2].source_error = "source not found"
    /\ owner_cache["e1"] = ContactCentre
    /\ fetches.owner["e1"] = 1
    /\ passes[2].owner_name = ContactCentre

TableKeys == {CHANNEL_PROJECT_MAPPING[i].key : i \in DOMAIN CHANNEL_PROJECT_MAPPING}
AllowedFor(key) ==
    (CHOOSE i \in DOMAIN CHANNEL_PROJECT_MAPPING : CHANNEL_PROJECT_MAPPING[i].key = key).projects
C16_ProjectLookupByKey ==
    (fld_pc = "done" /\ subject.kind = "project") =>
        LET name == Norm(subject.channel) IN
        IF name \notin TableKeys THEN verdict.error = ""
        ELSE IF AllowedFor(name) = << >> THEN verdict.error = ""
        ELSE /\ verdict.error # "" <=>
                    Norm(subject.project) \notin Range(AllowedFor(name))
             /\ verdict.error # "" => verdict.expected = AllowedFor(name)

\* C17: the tax-ID predicate yields no issue for company types other than legal and
\* entrepreneur; for these two it yields an issue when the tax ID is missing, when its
\* digit count is not 9 in RB, not 10 (legal) or 12 (entrepreneur) in RF, and in every
\* region when the tax ID contains a character that is not a digit.
C17_TaxIdIssues ==
    (fld_pc = "done" /\ subject.kind = "unp") =>
        LET ct == Lower(subject.companyType)
            taxid == IF subject.inn # << >> THEN subject.inn ELSE subject.code
            count == Len(DigitsOf(taxid)) IN
        IF ct \notin {"legal", "entrepreneur"} THEN verdict = ""
        ELSE (\/ taxid = << >>
              \/ region = "RB" /\ count # 9
              \/ region = "RF" /\ ct = "legal" /\ count # 10
              \/ region = "RF" /\ ct = "entrepreneur" /\ count # 12
              \/ \E i \in DOMAIN taxid : ~IsDigit(taxid[i])) => verdict # ""

\* C18: with the non-digits stripped, the phone predicate yields no issue exactly when
\* the digits start with 375 and number 12 in RB, start with 7 or 8 and number 11 in
\* RF, start with 7 and number 11 in KZ; an empty phone is an issue; the standard
\* phone field is used in preference to the phone attribute.
PhoneAccepted(rg, phone) ==
    LET d == DigitsOf(phone) IN
    CASE rg = "RB" -> StartsWith(d, <<"3", "7", "5">>) /\ Len(d) = 12
      [] rg = "RF" -> (StartsWith(d, <<"7">>) \/ StartsWith(d, <<"8">>)) /\ Len(d) = 11
      [] rg = "KZ" -> StartsWith(d, <<"7">>) /\ Len(d) = 11
C18_PhoneAcceptedExactly ==
    (fld_pc = "done" /\ subject.kind = "phone") =>
        LET used == IF subject.phone # << >> THEN subject.phone ELSE subject.attr_phone IN
        /\ verdict = "" <=> PhoneAccepted(region, used)
        /\ DigitsOf(used) = << >> => verdict # ""
        /\ (region = "RB" /\ subject.phone = ExamplePhoneRB) => verdict = ""
        /\ (region = "RB" /\ subject.phone = ExamplePhone80) => verdict # ""
C18_Witness ==
    /\ fld_pc = "done"
    /\ subject.kind = "phone"
    /\ region = "RF"
    /\ subject.phone = <<"+", "8">> \o Ones(10)
    /\ subject.attr_phone = <<" ">> \o ExamplePhoneRB
    /\ verdict = ""

\* C19: for every evaluator that checks prices, every region and company type, the
\* zero-price issues of a document correspond one-to-one, in order, to its line items
\* whose price is exactly 0; an item priced 1 kopeck or more yields none.
ZeroItems(positions) == {i \in DOMAIN positions : positions[i] = 0}
C21_ErrorEntryKeys ==
    (ck_pc = "fold" /\ ~cur.skipped /\ cur.issues # << >>) =>
        /\ {"name", "owner", "moment", "link", "issues"} \subseteq ErrorInfoFields(docType)
        /\ \A p \in Range(cur.issues) : p \in ErrorInfoPredicates(docType)

\* C22: a period fetch is paginated: when more documents match the filter than one
\* response holds, the following pages are requested until all matching documents,
\* up to the cap, have been returned.
C22_AllMatchingReturned ==
    pg_pc = "returned" => rows = Min(remote, RecordCap)

\* C23: for every contractor in region RB or RF, the "Tip dogovora" attribute and the
\* "Tip klienta" attribute each yield an issue exactly when missing or empty, an
\* attribute being present when it is a reference or a non-empty string; in RB the
\* "Region RB" attribute likewise; in KZ none of the three yields an issue.
AttributePresent(state) == state \in {"string", "named_reference", "bare_reference"}
C23_ReferenceAttributesRequired ==
    (fld_pc = "done" /\ subject.kind = "attributes") =>
        /\ region \in {"RB", "RF"} =>
             /\ verdict.contract_type # "" <=> ~AttributePresent(subject.contract_type)
             /\ verdict.client_type # "" <=> ~AttributePresent(subject.client_type)
        /\ region = "RB" => (verdict.region # "" <=> ~AttributePresent(subject.region_rb))
        /\ region = "RF" => verdict.region = ""
        /\ region = "KZ" =>
             verdict = [contract_type |-> "", client_type |-> "", region |-> ""]

\* C24: after any gateway call completes (200, 429, another HTTP error, a network
\* failure), the error window holds no event older than error_window_seconds.
C24_WindowPrunedAfterEveryCall ==
    (gw_pc = "idle" /\ gw_outcome # "none") =>
        \A i \in DOMAIN error_events : now - error_events[i][1] <= error_window_seconds

\* C25: over the documents one service instance handles, a reference with an inline
\* name causes no fetch; a name-less reference with a link causes exactly one fetch
\* the first time its identifier is resolved; once a fetch for an identifier has
\* returned a name, every later resolution of that identifier returns that name with
\* no fetch, and the cache entry is never changed or removed.
NeedsLookup(o) == o.dict /\ Blank(o.name) /\ o.id # ""
C25_OwnerFetchedOnceAndCached ==
    \A i \in DOMAIN passes :
        LET o == passes[i].owner IN
        /\ (o.dict /\ ~Blank(o.name)) => passes[i].fetched = ""
        /\ (NeedsLookup(o) /\ ~\E j \in 1..(i - 1) : NeedsLookup(passes[j].owner)
                                                     /\ passes[j].owner.id = o.id)
              => passes[i].fetched = o.id
        /\ \A j \in 1..(i - 1) :
              /\ (NeedsLookup(o) /\ passes[j].fetched = o.id
                  /\ passes[j].owner_name # NotSpecified)
                    => (passes[i].fetched = "" /\ passes[i].owner_name = passes[j].owner_name)
              /\ \A id \in OwnerIds :
                    passes[j].cache[id] # NoName => passes[i].cache[id] = passes[j].cache[id]
C25_Witness ==
    /\ Len(passes) = 3
    /\ passes[1].owner = [dict |-> TRUE, name |-> NoName, id |-> "e1"]
    /\ passes[1].fetched = "e1"
    /\ passes[1].owner_name = Ivanov
    /\ passes[2].owner = [dict |-> TRUE, name |-> ContactCentre, id |-> "e2"]
    /\ passes[3].owner = passes[1].owner
    /\ passes[3].fetched = ""
    /\ passes[3].owner_name = Ivanov
    /\ fetches.owner["e1"] = 1

\* C26: the company type of a document is resolved at most once: after the first
\* resolution, whatever its result, every later predicate of the pass gets the same
\* value and no further gateway request for the counterparty is made.
C26_CompanyTypeResolvedOnce ==
    /\ fetches.agent <= 1
    /\ \A i \in DOMAIN passes :
          i > 1 => (passes[i].company_type = passes[1].company_type /\ ~passes[i].fetched)
C26_Witness ==
    /\ Len(passes) = 3
    /\ passes[3].caller = "payment_method"
    /\ directory.agent.outcome = "raises"
    /\ passes[1].fetched
    /\ passes[3].company_type = NoneType
    /\ fetches.agent = 1

\* C27: the contract a document refers to is fetched from the gateway at most once and
\* the result is reused by the predicates that need it: evaluating one document never
\* issues two gateway requests for the same contract link.
C27_ContractFetchedOnce ==
    fetches.contract <= 1

\* C28: a malformed field in one document (a null owner, a null sum or payedSum, a
\* null price, an attribute that is not a mapping) never aborts the evaluation and
\* never turns the batch into status error: a check whose fetch returned documents
\* ends with status success and counts every one of them.
C28_MalformedFieldDoesNotAbort ==
    (ck_pc = "done" /\ documents > 0) =>
        (report.status = "success" /\ report.total = documents)

\* C29: the conditions prepayment, realization and realization-salons are all checked
\* for full payment: for a document of region RB or RF with one of the three and
\* sum > 0, a payment issue is produced whenever payedSum < sum - 0.01 (in kopecks:
\* payedSum + 1 < sum).
C29_FullPaymentConditions ==
    (/\ payment_error # "unchecked"
     /\ region \in {"RB", "RF"}
     /\ shipment.moment # NoMoment
     /\ shipment.contract = "linked"
     /\ contract_data.outcome = "returned"
     /\ contract_data.condition \in {Prepayment, Realization, RealizationSalons}
     /\ shipment.sum > 0
     /\ shipment.payedSum + 1 < shipment.sum)
    => payment_error # ""

\* C30: run_monitoring reports an overall clean result only if every check it ran
\* returned status success: a batch that ended in status error is never counted as a
\* batch with zero issues. The run takes the clean branch of its summary when it has
\* run every check of the region and total_issues is 0.
AllChecksSucceeded == \A i \in DOMAIN reports : reports[i].status = "success"
C30_CleanOnlyIfAllSucceeded ==
    /\ (run_result = "True" /\ total_issues = 0) => AllChecksSucceeded
    /\ (/\ run_pc = "done"
        /\ Len(reports) = Len(RunOrder(region))
        /\ total_issues = 0) => AllChecksSucceeded

=============================================================================
